---- MODULE Spec2Model ----
(***************************************************************************)
(* A model of the textstat metrics engine: text -> normalised tokens ->    *)
(* primitive counts -> readability formulas -> text_standard consensus.    *)
(*                                                                         *)
(* A text is a sequence of characters.  A character is a one-element       *)
(* string; the Arabic code points are written by their code ("U064E").     *)
(* A Python float is kept as an exact fraction [n, d] in lowest terms,     *)
(* d > 0.                                                                  *)
(***************************************************************************)
EXTENDS Integers, Sequences, FiniteSets, TLC

VARIABLES
    text,           \* the text the functions are called on
    ext,            \* what the formulas outside this model return for text
    self_lang,      \* textstatistics.__lang
    round_points,   \* textstatistics.__round_points: <<>> is None, <<p>> the int p
    op,             \* the function called, "none" before the call
    arg,            \* its arguments besides the text: [flag, lang]
    ret,            \* what it returned
    cache,          \* the stores of the typed_cache wrappers
    calls           \* the calls made so far of wrapped functions and of
                    \* the rounding setters, oldest first

vars == <<text, ext, self_lang, round_points, op, arg, ret, cache, calls>>

----------------------------------------------------------------------------
(* Bounds of the model *)

\* a text is the concatenation of at most MaxChunks chunks of Vocabulary
MaxChunks == 3

\* the scores of the grade formulas range over GradeSpan consecutive grades
GradeSpan == 2

\* maxsize of the lru_cache of typed_cache; utils/constants.py gives the
\* library's value, the model takes a store small enough to fill
CACHE_SIZE == 2

\* a behaviour makes at most MaxCalls calls of wrapped functions and of
\* rounding setters
MaxCalls == 4

----------------------------------------------------------------------------
(* Characters *)

Letters == {"a", "U0641", "U0627", "T", "h", "e", "y", "r"}

Digits == {"1"}

Whitespace == {" "}

Terminals == {".", "!", "?"}

\* \w of the re module: letters, digits and underscore.  Combining marks
\* (fatha U+064E, shadda U+0651) are category Mn and are not \w.
WordChars == Letters \cup Digits

Max(a, b) == IF a >= b THEN a ELSE b

----------------------------------------------------------------------------
(* Normalizer *)

Kept_every_apostrophe(s, i, rm_apostrophe) ==
    \/ s[i] \in WordChars
    \/ s[i] \in Whitespace
    \/ ~rm_apostrophe /\ s[i] = "'"

\* does the character at position i survive remove_punctuation
Kept(s, i, rm_apostrophe) ==
    \/ s[i] \in WordChars
    \/ s[i] \in Whitespace
    \/ /\ ~rm_apostrophe
       /\ s[i] = "'"
       /\ i > 1 /\ i < Len(s)
       /\ s[i - 1] \in Letters
       /\ s[i + 1] \in Letters

RECURSIVE KeepFrom(_, _, _)
KeepFrom(s, i, rm_apostrophe) ==
    IF i > Len(s) THEN <<>>
    ELSE (IF Kept(s, i, rm_apostrophe) THEN <<s[i]>> ELSE <<>>)
         \o KeepFrom(s, i + 1, rm_apostrophe)

remove_punctuation(s, rm_apostrophe) == KeepFrom(s, 1, rm_apostrophe)

\* str.split(): the maximal runs of non-whitespace characters
RECURSIVE SplitFrom(_, _, _)
SplitFrom(s, i, cur) ==
    IF i > Len(s) THEN (IF cur = <<>> THEN <<>> ELSE <<cur>>)
    ELSE IF s[i] \in Whitespace
         THEN (IF cur = <<>> THEN <<>> ELSE <<cur>>) \o SplitFrom(s, i + 1, <<>>)
         ELSE SplitFrom(s, i + 1, Append(cur, s[i]))

split(s) == SplitFrom(s, 1, <<>>)

\* re.sub(<character class>, "", s)
RECURSIVE StripChars(_, _)
StripChars(s, set) ==
    IF s = <<>> THEN <<>>
    ELSE (IF Head(s) \in set THEN <<>> ELSE <<Head(s)>>) \o StripChars(Tail(s), set)

----------------------------------------------------------------------------
(* Primitive counters *)

count_words(s, rm_punctuation) ==
    Len(split(IF rm_punctuation THEN remove_punctuation(s, TRUE) ELSE s))

count_chars(s, ignore_spaces) ==
    Len(IF ignore_spaces THEN StripChars(s, Whitespace) ELSE s)

\* \b before the character at position i (i = Len(s) + 1: the end of the text)
IsBoundary(s, i) ==
    LET before == i > 1 /\ s[i - 1] \in WordChars
        after  == i <= Len(s) /\ s[i] \in WordChars
    IN  before # after

\* the first position >= i whose character is not (inside) or is (~inside)
\* in set; Len(s) + 1 if there is none
RECURSIVE RunEnd(_, _, _, _)
RunEnd(s, i, set, inside) ==
    IF i > Len(s) \/ ((s[i] \in set) # inside) THEN i
    ELSE RunEnd(s, i + 1, set, inside)

RECURSIVE FindSentences_one_terminal(_, _)
FindSentences_one_terminal(s, i) ==
    IF i > Len(s) THEN <<>>
    ELSE IF IsBoundary(s, i) /\ s[i] \notin Terminals
         THEN LET body == RunEnd(s, i, Terminals, FALSE)
                  stop == RunEnd(s, body, Terminals, TRUE)
              IN  (IF stop = body + 1 THEN <<SubSeq(s, i, stop - 1)>> ELSE <<>>)
                  \o FindSentences_one_terminal(s, stop)
         ELSE FindSentences_one_terminal(s, i + 1)

\* re.findall(r"\b[^.!?]+[.!?]*", s): left to right, non-overlapping; both
\* quantifiers are greedy and never give anything back
RECURSIVE FindSentences(_, _)
FindSentences(s, i) ==
    IF i > Len(s) THEN <<>>
    ELSE IF IsBoundary(s, i) /\ s[i] \notin Terminals
         THEN LET body == RunEnd(s, i, Terminals, FALSE)
                  stop == RunEnd(s, body, Terminals, TRUE)
              IN  <<SubSeq(s, i, stop - 1)>> \o FindSentences(s, stop)
         ELSE FindSentences(s, i + 1)

sentences_of(s) == FindSentences(s, 1)

ignore_count_single(sentences) ==
    Cardinality({k \in 1..Len(sentences) : count_words(sentences[k], TRUE) <= 1})

ignore_count(sentences) ==
    Cardinality({k \in 1..Len(sentences) : count_words(sentences[k], TRUE) <= 2})

count_sentences_unfloored(s) ==
    LET sentences == sentences_of(s)
    IN  Len(sentences) - ignore_count(sentences)

count_sentences(s) ==
    LET sentences == sentences_of(s)
    IN  Max(1, Len(sentences) - ignore_count(sentences))

\* the hyphenation dictionary of lang, an external collaborator: the number
\* of hyphenation positions of a word.  The stand-in puts one position
\* every HyphenEvery(lang) letters.
HyphenEvery(lang) == IF lang = "en_US" THEN 2 ELSE 3

positions(word, lang) == (Len(word) - 1) \div HyphenEvery(lang)

RECURSIVE SumSyllables(_, _)
SumSyllables(words, lang) ==
    IF words = <<>> THEN 0
    ELSE positions(Head(words), lang) + 1 + SumSyllables(Tail(words), lang)

count_syllables(s, lang) == SumSyllables(split(remove_punctuation(s, TRUE)), lang)

list_words(s) == split(remove_punctuation(s, TRUE))

count_monosyllable_words(s, lang) ==
    LET ws == list_words(s)
    IN  Cardinality({k \in 1..Len(ws) : count_syllables(ws[k], lang) = 1})

count_polysyllable_words(s, lang) ==
    LET ws == list_words(s)
    IN  Cardinality({k \in 1..Len(ws) : count_syllables(ws[k], lang) > 3})

\* the list tashkeel of count_arabic_syllables: three raw string literals
\* (r"..."), in which the backslash escape is not interpreted, so each is
\* a string of six characters: backslash, u and four hexadecimal digits
tashkeel ==
    << <<"\\", "u", "0", "6", "4", "E">>,
       <<"\\", "u", "0", "6", "4", "F">>,
       <<"\\", "u", "0", "6", "5", "0">> >>

LongVowels == {"U0627", "U0648", "U064A"}

StressMarks == {"U064B", "U064C", "U064D", "U0651"}

Fillers == {"U0627", "U0649", "?", ".", "!", ",", " ", "*"}

\* char_list: the characters of the words of the normalised text
char_list(s) == StripChars(remove_punctuation(s, TRUE), Whitespace)

\* the positions of cl that the scan of tashkeel entry t counts; a
\* character c of cl is the one-character string <<c>>
Hits(cl, t) == {i \in 1..Len(cl) : <<cl[i]>> = t}

IsLongAt(cl, i) == i + 1 <= Len(cl) /\ cl[i + 1] \in LongVowels

long_count(cl) ==
    Cardinality({p \in (1..Len(tashkeel)) \X (1..Len(cl)) :
                    p[2] \in Hits(cl, tashkeel[p[1]]) /\ IsLongAt(cl, p[2])})

short_scan(cl) ==
    Cardinality({p \in (1..Len(tashkeel)) \X (1..Len(cl)) :
                    p[2] \in Hits(cl, tashkeel[p[1]]) /\ ~IsLongAt(cl, p[2])})

stress_count(s) == Cardinality({i \in 1..Len(s) : s[i] \in StressMarks})

count_arabic_syllables(s) ==
    LET cl    == char_list(s)
        short == IF short_scan(cl) = 0
                 THEN Len(StripChars(s, Fillers)) - 2
                 ELSE short_scan(cl)
    IN  short + 2 * (long_count(cl) + stress_count(s))

Tashkeel11 ==
    {"U064E", "U064B", "U064F", "U064C", "U0650", "U064D", "U0651",
     "U0652", "U0653", "U0657", "U0658"}

count_arabic_long_words(s) ==
    LET ws == split(remove_punctuation(StripChars(s, Tashkeel11), TRUE))
    IN  Cardinality({k \in 1..Len(ws) : Len(ws[k]) > 5})

----------------------------------------------------------------------------
(* Floats and return values *)

RECURSIVE GCD(_, _)
GCD(a, b) == IF b = 0 THEN a ELSE GCD(b, a % b)

Abs(a) == IF a < 0 THEN -a ELSE a

\* the float n / d, d > 0
Ratio(n, d) ==
    LET g == GCD(Abs(n), d)
    IN  [n |-> n \div g, d |-> d \div g]

Zero == Ratio(0, 1)

floor(x) == x.n \div x.d

ceil(x) == -((-x.n) \div x.d)

\* int(x): truncation towards zero
int(x) == IF x.n >= 0 THEN x.n \div x.d ELSE -((-x.n) \div x.d)

\* what a call gives: kind is "float", "int" or "str" for a returned value,
\* "raise" for an exception that leaves the function (str names it) and
\* "none" before the call
FloatRet(x) == [kind |-> "float", n |-> x.n, d |-> x.d, str |-> ""]

IntRet(k) == [kind |-> "int", n |-> k, d |-> 1, str |-> ""]

StrRet(s) == [kind |-> "str", n |-> 0, d |-> 1, str |-> s]

RaiseRet(exc) == [kind |-> "raise", n |-> 0, d |-> 1, str |-> exc]

NoRet == [kind |-> "none", n |-> 0, d |-> 1, str |-> ""]

except_nothing(body, handler) == body

\* try: body / except ZeroDivisionError: handler
except_ZeroDivisionError(body, handler) ==
    IF body.kind = "raise" /\ body.str = "ZeroDivisionError" THEN handler ELSE body

\* a / b of two ints
truediv(a, b) ==
    IF b = 0 THEN RaiseRet("ZeroDivisionError") ELSE FloatRet(Ratio(a, b))

----------------------------------------------------------------------------
(* Formula library *)

\* the try block of automated_readability_index:
\* (4.71 * chrs / words) + (0.5 * words / sentences) - 21.43, exactly
ari_try(chrs, words, sentences) ==
    IF truediv(chrs, words).kind = "raise" THEN truediv(chrs, words)
    ELSE IF truediv(words, sentences).kind = "raise" THEN truediv(words, sentences)
    ELSE FloatRet(Ratio(471 * chrs * sentences + 50 * words * words
                          - 2143 * words * sentences,
                        100 * words * sentences))

automated_readability_index(s) ==
    except_ZeroDivisionError(
        ari_try(count_chars(s, TRUE), count_words(s, TRUE), count_sentences(s)),
        FloatRet(Zero))

\* the largest k in lo..hi with k * k <= x
RECURSIVE IsqrtIn(_, _, _)
IsqrtIn(x, lo, hi) ==
    IF lo = hi THEN lo
    ELSE LET mid == (lo + hi + 1) \div 2
         IN  IF mid * mid <= x THEN IsqrtIn(x, mid, hi) ELSE IsqrtIn(x, lo, mid - 1)

\* the try block of smog_index:
\* (1.043 * (30 * (poly_syllab / sentences)) ** 0.5) + 3.1291, from below to
\* within a thousandth: 1043^2 * 30 = 32635470 and 3.1291 = 31291 / 10000
smog_try(poly_syllab, sentences) ==
    IF truediv(poly_syllab, sentences).kind = "raise"
    THEN truediv(poly_syllab, sentences)
    ELSE FloatRet(Ratio(
            10 * IsqrtIn((32635470 * poly_syllab) \div sentences, 0, 40000) + 31291,
            10000))

smog_index_unguarded(s, lang) ==
    except_ZeroDivisionError(
        smog_try(count_polysyllable_words(s, lang), count_sentences(s)),
        FloatRet(Zero))

smog_index(s, lang) ==
    LET sentences == count_sentences(s)
    IN  IF sentences < 3 THEN FloatRet(Zero)
        ELSE except_ZeroDivisionError(
                 smog_try(count_polysyllable_words(s, lang), sentences),
                 FloatRet(Zero))

\* try: count_chars / count_words; the except clause returns count_chars
\* itself, an int
chars_per_word(s, ignore_spaces) ==
    except_ZeroDivisionError(
        truediv(count_chars(s, ignore_spaces), count_words(s, TRUE)),
        IntRet(count_chars(s, ignore_spaces)))

----------------------------------------------------------------------------
(* Consensus engine *)

ease_votes_one_each(score) ==
    IF floor(score) < 100 /\ floor(score) >= 90 THEN <<5>>
    ELSE IF floor(score) < 90 /\ floor(score) >= 80 THEN <<6>>
    ELSE IF floor(score) < 80 /\ floor(score) >= 70 THEN <<7>>
    ELSE IF floor(score) < 70 /\ floor(score) >= 60 THEN <<8>>
    ELSE IF floor(score) < 60 /\ floor(score) >= 50 THEN <<10>>
    ELSE IF floor(score) < 50 /\ floor(score) >= 40 THEN <<11>>
    ELSE IF floor(score) < 40 /\ floor(score) >= 30 THEN <<12>>
    ELSE <<13>>

\* the votes of Flesch Reading Ease
ease_votes(score) ==
    IF floor(score) < 100 /\ floor(score) >= 90 THEN <<5>>
    ELSE IF floor(score) < 90 /\ floor(score) >= 80 THEN <<6>>
    ELSE IF floor(score) < 80 /\ floor(score) >= 70 THEN <<7>>
    ELSE IF floor(score) < 70 /\ floor(score) >= 60 THEN <<8, 9>>
    ELSE IF floor(score) < 60 /\ floor(score) >= 50 THEN <<10>>
    ELSE IF floor(score) < 50 /\ floor(score) >= 40 THEN <<11>>
    ELSE IF floor(score) < 40 /\ floor(score) >= 30 THEN <<12>>
    ELSE <<13>>

\* lower and upper of one grade formula
floor_ceil(score) == <<floor(score), ceil(score)>>

\* what the eight formulas return, in the order text_standard calls them
formula_scores(s, lang, e) ==
    << FloatRet(e.fk), FloatRet(e.re), smog_index(s, lang), FloatRet(e.cl),
       automated_readability_index(s), FloatRet(e.dc), FloatRet(e.lw),
       FloatRet(e.gf) >>

\* the votes each formula appends to grade
formula_votes(scores) ==
    [k \in 1..Len(scores) |->
        IF k = 2 THEN ease_votes(scores[k]) ELSE floor_ceil(scores[k])]

RECURSIVE Concat(_)
Concat(lists) == IF lists = <<>> THEN <<>> ELSE Head(lists) \o Concat(Tail(lists))

\* the list grade once every formula has voted
grade_list(scores) == Concat(formula_votes(scores))

\* the distinct votes in increasing order
RECURSIVE CounterKeys_numeric(_, _)
CounterKeys_numeric(grade, keys) ==
    LET rest == {grade[i] : i \in 1..Len(grade)} \ {keys[k] : k \in 1..Len(keys)}
    IN  IF rest = {} THEN keys
        ELSE CounterKeys_numeric(grade,
                 Append(keys, CHOOSE v \in rest : \A w \in rest : v <= w))

\* Counter(grade): its keys in insertion order, the order of first occurrence
RECURSIVE CounterKeys(_, _)
CounterKeys(grade, keys) ==
    IF grade = <<>> THEN keys
    ELSE CounterKeys(Tail(grade),
                     IF \E k \in 1..Len(keys) : keys[k] = Head(grade)
                     THEN keys ELSE Append(keys, Head(grade)))

CounterCount(grade, v) == Cardinality({i \in 1..Len(grade) : grade[i] = v})

Beats_fewer(c, best) == c < best

Beats_or_ties(c, best) == c >= best

\* does the scan of most_common replace its best item by one of count c
Beats(c, best) == c > best

\* Counter.most_common(1): max(items, key=count), a left-to-right scan of the
\* items that keeps the first item of the largest count
RECURSIVE MaxItem(_, _, _, _)
MaxItem(grade, keys, i, best) ==
    IF i > Len(keys) THEN best
    ELSE MaxItem(grade, keys, i + 1,
                 IF Beats(CounterCount(grade, keys[i]), CounterCount(grade, best))
                 THEN keys[i] ELSE best)

most_common_1(grade) ==
    LET keys == CounterKeys(grade, <<>>)
    IN  MaxItem(grade, keys, 2, keys[1])

\* metrics.text_standard(text, lang); an exception of a formula leaves it
text_standard(s, lang, e) ==
    LET scores == formula_scores(s, lang, e)
        raised == {k \in 1..Len(scores) : scores[k].kind = "raise"}
    IN  IF raised # {}
        THEN scores[CHOOSE k \in raised : \A j \in raised : k <= j]
        ELSE FloatRet(Ratio(most_common_1(grade_list(scores)), 1))

\* utils.get_grade_suffix, the ordinal-suffix formatter
get_grade_suffix(g) ==
    IF g % 100 \in {11, 12, 13} THEN "th"
    ELSE IF g % 10 = 1 THEN "st"
    ELSE IF g % 10 = 2 THEN "nd"
    ELSE IF g % 10 = 3 THEN "rd"
    ELSE "th"

\* "{}{} and {}{} grade".format(lower, suffix, upper, suffix)
grade_band(lower_score, upper_score) ==
    ToString(lower_score) \o get_grade_suffix(lower_score) \o " and "
    \o ToString(upper_score) \o get_grade_suffix(upper_score) \o " grade"

RECURSIVE Pow10(_)
Pow10(k) == IF k = 0 THEN 1 ELSE 10 * Pow10(k - 1)

\* the integer nearest to n / d, d > 0; of two equally near, the even one
RoundHalfEven(n, d) ==
    LET q == n \div d
        r == n % d
    IN  IF 2 * r < d THEN q
        ELSE IF 2 * r > d THEN q + 1
        ELSE IF q % 2 = 0 THEN q ELSE q + 1

\* round(number, ndigits)
round(number, ndigits) ==
    IF ndigits >= 0
    THEN Ratio(RoundHalfEven(number.n * Pow10(ndigits), number.d), Pow10(ndigits))
    ELSE Ratio(RoundHalfEven(number.n, number.d * Pow10(-ndigits)) * Pow10(-ndigits), 1)

\* textstatistics._legacy_round; points is <<>> for None and <<p>> for the
\* int p
legacy_round(number, points) ==
    IF points = <<>> THEN number ELSE round(number, points[1])

lower_of_same(standard_value) == int(standard_value)

\* the lower score of the band textstatistics.text_standard names
lower_of(standard_value) == int(standard_value) - 1

\* textstatistics.text_standard(text, float_output)
ts_text_standard(s, lang, e, points, float_output) ==
    LET standard_value == text_standard(s, lang, e)
    IN  IF standard_value.kind = "raise" THEN standard_value
        ELSE IF float_output THEN FloatRet(legacy_round(standard_value, points))
        ELSE LET lower_score == lower_of(standard_value)
                 upper_score == lower_score + 1
             IN  StrRet(grade_band(lower_score, upper_score))

----------------------------------------------------------------------------
(* Inputs *)

LatinVocabulary ==
    << <<"a">>, <<" ">>, <<".">>, <<"!">>, <<"'">>, <<"-">>,
       <<"a", " ", "a", " ", "a", ".">>,
       <<"a", "a", "a", "a", "a", "a">> >>

ArabicVocabulary ==
    << <<"U0641">>, <<"U064E">>, <<"U0627">>, <<"U0651">>, <<",">>, <<" ">> >>

RECURSIVE Flatten(_, _)
Flatten(vocabulary, cs) ==
    IF cs = <<>> THEN <<>>
    ELSE vocabulary[Head(cs)] \o Flatten(vocabulary, Tail(cs))

TextsOver(vocabulary) ==
    {Flatten(vocabulary, cs) :
        cs \in UNION {[1..k -> 1..Len(vocabulary)] : k \in 0..MaxChunks}}

Texts == TextsOver(LatinVocabulary) \cup TextsOver(ArabicVocabulary)

Langs == {"en_US", "de_DE"}

\* the scores of the formulas kept outside the model
Grades == {Ratio(2 * g + h, 2) : g \in 8..(7 + GradeSpan), h \in {0, 1}}

Eases == {Ratio(65, 1), Ratio(85, 1)}

NoScores ==
    [fk |-> Zero, re |-> Zero, cl |-> Zero, dc |-> Zero, lw |-> Zero, gf |-> Zero]

\* a formula returns 0.0 when the text has no word
ScoresOf(s) ==
    IF count_words(s, TRUE) = 0 THEN {NoScores}
    ELSE [fk : Grades, re : Eases, cl : Grades, dc : Grades, lw : Grades,
          gf : Grades]

ThreeSentences == Flatten(LatinVocabulary, <<7, 7, 7>>)

StandardTexts == {<<>>, <<"a">>, ThreeSentences}

NoArg == [flag |-> FALSE, lang |-> ""]

\* the stores of the wrappers before any call
NoEntries == [smog_index |-> <<>>, chars_per_word |-> <<>>, hit |-> FALSE]

----------------------------------------------------------------------------
(* The calls of the counters and formulas on one text *)

InitText ==
    /\ text \in Texts
    /\ ext = NoScores
    /\ self_lang = "en_US"
    /\ round_points = <<>>
    /\ op = "none"
    /\ arg = NoArg
    /\ ret = NoRet
    /\ cache = NoEntries
    /\ calls = <<>>

\* the call of function name with arguments text and a returns value.  The
\* functions are pure: a behaviour is one call on one text, and the store of
\* its wrapper, empty before that call, plays no part in it.
Returns(name, a, value) ==
    /\ op = "none"
    /\ op' = name
    /\ arg' = a
    /\ ret' = value
    /\ UNCHANGED <<text, ext, self_lang, round_points, cache, calls>>

Call_count_sentences ==
    Returns("count_sentences", NoArg, IntRet(count_sentences(text)))

Call_count_arabic_syllables ==
    Returns("count_arabic_syllables", NoArg, IntRet(count_arabic_syllables(text)))

Call_count_arabic_long_words ==
    Returns("count_arabic_long_words", NoArg, IntRet(count_arabic_long_words(text)))

Call_count_monosyllable_words ==
    \E lang \in Langs :
        Returns("count_monosyllable_words", [flag |-> FALSE, lang |-> lang],
                IntRet(count_monosyllable_words(text, lang)))

Call_automated_readability_index ==
    Returns("automated_readability_index", NoArg, automated_readability_index(text))

Call_smog_index ==
    \E lang \in Langs :
        Returns("smog_index", [flag |-> FALSE, lang |-> lang], smog_index(text, lang))

Call_chars_per_word ==
    \E ignore_spaces \in BOOLEAN :
        Returns("chars_per_word", [flag |-> ignore_spaces, lang |-> ""],
                chars_per_word(text, ignore_spaces))

NextText ==
    \/ Call_count_sentences
    \/ Call_count_arabic_syllables
    \/ Call_count_arabic_long_words
    \/ Call_count_monosyllable_words
    \/ Call_automated_readability_index
    \/ Call_smog_index
    \/ Call_chars_per_word

SpecText == InitText /\ [][NextText]_vars

----------------------------------------------------------------------------
(* The calls of text_standard *)

InitStandard ==
    /\ text \in StandardTexts
    /\ ext \in ScoresOf(text)
    /\ self_lang = "en_US"
    /\ round_points = <<>>
    /\ op = "none"
    /\ arg = NoArg
    /\ ret = NoRet
    /\ cache = NoEntries
    /\ calls = <<>>

Call_text_standard ==
    \E lang \in Langs :
        Returns("metrics.text_standard", [flag |-> FALSE, lang |-> lang],
                text_standard(text, lang, ext))

Call_ts_text_standard ==
    \E float_output \in BOOLEAN :
        Returns("text_standard", [flag |-> float_output, lang |-> self_lang],
                ts_text_standard(text, self_lang, ext, round_points, float_output))

NextStandard ==
    \/ Call_text_standard
    \/ Call_ts_text_standard
    \/ Call_automated_readability_index
    \/ Call_smog_index
    \/ Call_chars_per_word

SpecStandard == InitStandard /\ [][NextStandard]_vars

----------------------------------------------------------------------------
(* The votes behind a returned consensus grade *)

\* the votes of each formula, in the order Flesch-Kincaid, reading ease,
\* SMOG, Coleman-Liau, ARI, Dale-Chall, Linsear Write, Gunning Fog
VotesByFormula == formula_votes(formula_scores(text, arg.lang, ext))

Has(votes, v) == \E i \in 1..Len(votes) : votes[i] = v

Values(votes) == {votes[i] : i \in 1..Len(votes)}

\* the number of votes for v among the first i votes
CountUpTo(votes, v, i) == Cardinality({j \in 1..i : votes[j] = v})

\* the highest count of a value
TopCount(votes) ==
    CHOOSE c \in 1..Len(votes) :
        /\ \E v \in Values(votes) : CountUpTo(votes, v, Len(votes)) = c
        /\ \A v \in Values(votes) : CountUpTo(votes, v, Len(votes)) <= c

\* the values tied for the highest count
Tied(votes) ==
    LET top == TopCount(votes)
    IN  {v \in Values(votes) : CountUpTo(votes, v, Len(votes)) = top}

\* the position of the first vote for v
FirstVote(votes, v) ==
    CHOOSE i \in 1..Len(votes) : votes[i] = v /\ ~Has(SubSeq(votes, 1, i - 1), v)

\* the position of the vote at which the count of v reaches top
ReachedAt(votes, v, top) ==
    CHOOSE i \in 1..Len(votes) : votes[i] = v /\ CountUpTo(votes, v, i) = top

\* the first formula that votes for v
Rank(byFormula, v) ==
    CHOOSE k \in 1..Len(byFormula) :
        Has(byFormula[k], v) /\ \A j \in 1..(k - 1) : ~Has(byFormula[j], v)

\* v is voted before w: by an earlier formula, or earlier by the same one
SeenBefore(byFormula, v, w) ==
    LET rv == Rank(byFormula, v)
        rw == Rank(byFormula, w)
    IN  \/ rv < rw
        \/ /\ rv = rw
           /\ FirstVote(byFormula[rv], v) < FirstVote(byFormula[rv], w)

EngineReturned == op = "metrics.text_standard" /\ ret.kind = "float"

----------------------------------------------------------------------------
(* Claims *)

\* C1: text_standard returns one of the votes, and no other value of the
\* vote list has strictly more votes than the value returned.
C1_ConsensusHasMostVotes ==
    op = "metrics.text_standard" =>
        LET votes == Concat(VotesByFormula)
        IN  /\ ret.kind = "float" /\ ret.d = 1
            /\ Has(votes, ret.n)
            /\ CountUpTo(votes, ret.n, Len(votes)) = TopCount(votes)

\* C1 witness: a single value has the most votes and it is not the first vote
C1_Witness ==
    /\ EngineReturned
    /\ LET votes == Concat(VotesByFormula)
       IN  /\ Tied(votes) = {ret.n}
           /\ ret.n # votes[1]
           /\ Cardinality(Values(votes)) > 2

\* C2 as stated: among the values tied for the highest count, text_standard
\* returns the one whose count reaches that maximum first in the scan of the
\* votes in the order they were appended.
C2_TieGoesToFirstToReachMax ==
    EngineReturned =>
        LET votes == Concat(VotesByFormula)
            top   == TopCount(votes)
            tied  == Tied(votes)
        IN  /\ ret.n \in tied
            /\ \A v \in tied : ReachedAt(votes, ret.n, top) <= ReachedAt(votes, v, top)

\* C2 as amended: among the values tied for the highest count, text_standard
\* returns the one whose first vote comes earliest in the order the votes
\* were appended, whatever the numeric order of the tied values.
C2_TieGoesToEarliestFirstVote ==
    EngineReturned =>
        LET votes == Concat(VotesByFormula)
            tied  == Tied(votes)
        IN  /\ ret.n \in tied
            /\ \A v \in tied : FirstVote(votes, ret.n) <= FirstVote(votes, v)

\* C2 witness: a tie in which a smaller value reached the highest count
\* before the value returned did
C2_Witness ==
    /\ EngineReturned
    /\ LET votes == Concat(VotesByFormula)
           top   == TopCount(votes)
       IN  \E v \in Tied(votes) :
               v < ret.n /\ ReachedAt(votes, v, top) < ReachedAt(votes, ret.n, top)

\* C3: among the values tied for the highest count, text_standard returns
\* the one seen first in the fixed order of the formulas: Flesch-Kincaid,
\* reading ease, SMOG, Coleman-Liau, ARI, Dale-Chall, Linsear Write,
\* Gunning Fog.
C3_TieGoesToFirstSeen ==
    EngineReturned =>
        LET byFormula == VotesByFormula
            tied      == Tied(Concat(byFormula))
        IN  /\ ret.n \in tied
            /\ \A v \in tied \ {ret.n} : SeenBefore(byFormula, ret.n, v)

\* C3 witness: a tie with a value that a later formula is the first to vote
\* for
C3_Witness ==
    /\ EngineReturned
    /\ LET byFormula == VotesByFormula
       IN  \E v \in Tied(Concat(byFormula)) :
               Rank(byFormula, ret.n) < Rank(byFormula, v)

C5_BandStartsAtFloatForm ==
    /\ op = "text_standard" /\ ~arg.flag =>
          LET g == int(ts_text_standard(text, self_lang, ext, round_points, TRUE))
          IN  ret.str = ToString(g) \o get_grade_suffix(g) \o " and "
                        \o ToString(g + 1) \o get_grade_suffix(g + 1) \o " grade"
    /\ op = "text_standard" /\ ~arg.flag /\ text = <<>> =>
          ret.str = "0th and 1st grade"
    /\ op = "text_standard" /\ arg.flag /\ text = <<>> =>
          ret.kind = "float" /\ ret.n = 0

\* C6: count_sentences returns at least 1, also for the empty text and for
\* a text all of whose segments are discarded.
C6_AtLeastOneSentence ==
    op = "count_sentences" => ret.kind = "int" /\ ret.n >= 1

\* C6 witness: the scan finds segments and every one of them is discarded
C6_Witness ==
    /\ op = "count_sentences"
    /\ Len(sentences_of(text)) >= 2
    /\ ignore_count(sentences_of(text)) = Len(sentences_of(text))
    /\ ret.n = 1

Counters ==
    {"count_arabic_syllables", "count_arabic_long_words",
     "count_monosyllable_words", "count_sentences"}

\* C7 as stated: every counter returns a value >= 0 for every text.
C7_CountersNonNegative ==
    op \in Counters => ret.kind = "int" /\ ret.n >= 0

ShortVowels == {"U064E", "U064F", "U0650"}

\* the occurrences of a short-vowel diacritic in the text, split by whether
\* alef, waw or yaa follows immediately
LongOccurrences ==
    {i \in 1..Len(text) :
        text[i] \in ShortVowels /\ i < Len(text) /\ text[i + 1] \in LongVowels}

ShortOccurrences ==
    {i \in 1..Len(text) : text[i] \in ShortVowels} \ LongOccurrences

\* C8 as stated: count_arabic_syllables counts each short-vowel diacritic
\* followed by alef, waw or yaa as a long syllable of weight 2 and any other
\* one as a short syllable of weight 1; feh + fatha + alef gives 2.
C8_LongSyllableWeighsTwo ==
    /\ op = "count_arabic_syllables" /\ ShortOccurrences \cup LongOccurrences # {} =>
          ret.n = Cardinality(ShortOccurrences)
                  + 2 * (Cardinality(LongOccurrences) + stress_count(text))
    /\ op = "count_arabic_syllables" /\ text = <<"U0641", "U064E", "U0627">> =>
          ret.n = 2

Formulas == {"automated_readability_index", "smog_index", "chars_per_word"}

\* C9 as stated: for a text whose word count is 0 the formulas
\* automated_readability_index, smog_index and chars_per_word return 0.0.
C9_ZeroWordsGiveZero ==
    op \in Formulas /\ count_words(text, TRUE) = 0 =>
        ret.kind \in {"float", "int"} /\ ret.n = 0

\* C10: for the empty text the formulas automated_readability_index,
\* smog_index, chars_per_word and text_standard return a number: no
\* ZeroDivisionError leaves any of them.
C10_EmptyTextGivesNumber ==
    text = <<>> /\ op \in Formulas \cup {"metrics.text_standard"} =>
        ret.kind \in {"float", "int"} /\ ret.d > 0

\* C10 witness: text_standard has returned 0.0 for the empty text
C10_Witness ==
    /\ text = <<>>
    /\ op = "metrics.text_standard"
    /\ ret.kind = "float" /\ ret.n = 0

----------------------------------------------------------------------------
(* smog_index on texts of up to MaxChunks sentences *)

LongWord == <<"a", "a", "a", "a", "a", "a", "a">>

\* a sentence of three words with a word of seven letters, a sentence of
\* three short words, a segment of two words, a word of seven letters, a
\* space and a question mark
SmogVocabulary ==
    << LongWord \o <<" ", "a", " ", "a", ".">>,
       <<"a", " ", "a", " ", "a", ".">>,
       <<"a", " ", "a", ".">>,
       LongWord,
       <<" ">>,
       <<"?">> >>

SmogTexts == TextsOver(SmogVocabulary)

InitSmog ==
    /\ text \in SmogTexts
    /\ ext = NoScores
    /\ self_lang = "en_US"
    /\ round_points = <<>>
    /\ op = "none"
    /\ arg = NoArg
    /\ ret = NoRet
    /\ cache = NoEntries
    /\ calls = <<>>

NextSmog ==
    \/ Call_smog_index
    \/ Call_count_sentences

SpecSmog == InitSmog /\ [][NextSmog]_vars

\* 3.1291, what smog_index returns for three or more sentences without a
\* polysyllabic word
SmogFloor == FloatRet(Ratio(31291, 10000))

\* C11: smog_index returns 0.0 for every text of fewer than 3 sentences,
\* however many polysyllabic words it has; with 3 sentences or more the
\* result is the formula of the polysyllable count, above 3.1291 exactly
\* when the text has a polysyllabic word.
C11_ShortTextGivesZero ==
    op = "smog_index" =>
        LET sentences == count_sentences(text)
            poly      == count_polysyllable_words(text, arg.lang)
        IN  /\ sentences < 3 => ret = FloatRet(Zero)
            /\ sentences >= 3 =>
                  /\ ret = smog_try(poly, sentences)
                  /\ (poly = 0) = (ret = SmogFloor)
                  /\ poly > 0 => ret.n * SmogFloor.d > SmogFloor.n * ret.d

\* C11 witness: 0.0 for a text of two sentences with two polysyllabic words
C11_Witness ==
    /\ op = "smog_index"
    /\ count_sentences(text) = 2
    /\ count_polysyllable_words(text, arg.lang) = 2
    /\ ret = FloatRet(Zero)

----------------------------------------------------------------------------
(* Memoization layer: typed_cache is lru_cache(maxsize=CACHE_SIZE) *)

make_key_first(args) == <<args[1]>>

\* the key lru_cache makes of the positional arguments of a call: the tuple
\* of all of them
make_key(args) == args

\* the position of the entry of key in the store, 0 if it has none
Find(entries, key) ==
    IF \E i \in 1..Len(entries) : entries[i].key = key
    THEN CHOOSE i \in 1..Len(entries) : entries[i].key = key
    ELSE 0

Without(entries, i) ==
    SubSeq(entries, 1, i - 1) \o SubSeq(entries, i + 1, Len(entries))

lru_cache_wrapper_unmoved(entries, args, result) ==
    LET key == make_key(args)
        i   == Find(entries, key)
    IN  IF i > 0
        THEN [entries |-> entries, value |-> entries[i].value, hit |-> TRUE]
        ELSE [entries |-> Append(IF Len(entries) >= CACHE_SIZE
                                 THEN Tail(entries) ELSE entries,
                                 [key |-> key, value |-> result]),
              value |-> result, hit |-> FALSE]

\* one call of the wrapper lru_cache puts around a function: entries is its
\* store, least recently used entry first, and result what the function
\* returns for args.  A hit returns the stored value and makes the entry the
\* most recent one; a miss stores the result, in place of the least recently
\* used entry when the store is full; an exception stores nothing.
lru_cache_wrapper(entries, args, result) ==
    LET key == make_key(args)
        i   == Find(entries, key)
    IN  IF i > 0
        THEN [entries |-> Append(Without(entries, i), entries[i]),
              value |-> entries[i].value, hit |-> TRUE]
        ELSE IF result.kind = "raise"
        THEN [entries |-> entries, value |-> result, hit |-> FALSE]
        ELSE [entries |-> Append(IF Len(entries) >= CACHE_SIZE
                                 THEN Tail(entries) ELSE entries,
                                 [key |-> key, value |-> result]),
              value |-> result, hit |-> FALSE]

WrappedFunctions == {"smog_index", "chars_per_word"}

LongSentences == Flatten(SmogVocabulary, <<1, 1, 1>>)

CacheTexts == {ThreeSentences, LongSentences}

\* a call name(t, ...) that goes through the wrapper of function f with
\* arguments args; the caller rounds a float to points digits
Wrapped(name, f, t, a, args, result, points) ==
    LET r == lru_cache_wrapper(cache[f], args, result)
    IN  /\ Len(calls) < MaxCalls
        /\ text' = t
        /\ op' = name
        /\ arg' = a
        /\ ret' = IF r.value.kind = "float"
                  THEN FloatRet(legacy_round(r.value, points))
                  ELSE r.value
        /\ cache' = [cache EXCEPT ![f] = r.entries, !.hit = r.hit]
        /\ calls' = Append(calls, [f |-> f, args |-> args])
        /\ UNCHANGED <<ext, self_lang, round_points>>

\* textstatistics.set_lang(lang)
set_lang ==
    \E lang \in Langs :
        /\ self_lang' = lang
        /\ op' = "set_lang"
        /\ arg' = [flag |-> FALSE, lang |-> lang]
        /\ ret' = NoRet
        /\ UNCHANGED <<text, ext, round_points, cache, calls>>

\* textstatistics.smog_index(text)
ts_smog_index ==
    \E t \in CacheTexts :
        Wrapped("textstatistics.smog_index", "smog_index", t,
                [flag |-> FALSE, lang |-> self_lang], <<t, self_lang>>,
                smog_index(t, self_lang), round_points)

\* metrics.chars_per_word(text, ignore_spaces)
Cached_chars_per_word ==
    \E t \in CacheTexts, ignore_spaces \in BOOLEAN :
        Wrapped("metrics.chars_per_word", "chars_per_word", t,
                [flag |-> ignore_spaces, lang |-> ""], <<t, ignore_spaces>>,
                chars_per_word(t, ignore_spaces), <<>>)

InitCache ==
    /\ text = <<>>
    /\ ext = NoScores
    /\ self_lang = "en_US"
    /\ round_points = <<>>
    /\ op = "none"
    /\ arg = NoArg
    /\ ret = NoRet
    /\ cache = NoEntries
    /\ calls = <<>>

NextCache ==
    \/ set_lang
    \/ ts_smog_index
    \/ Cached_chars_per_word

SpecCache == InitCache /\ [][NextCache]_vars

\* C12: whatever set_lang calls, wrapped calls and evictions came before, a
\* wrapped call returns what the function computes afresh for the text and
\* for the language or flag of this call, never the value of another
\* language or flag.
C12_CacheTransparent ==
    /\ op = "textstatistics.smog_index" => ret = smog_index(text, self_lang)
    /\ op = "metrics.chars_per_word" => ret = chars_per_word(text, arg.flag)

\* C12 witness: after set_lang a hit returns the value of the new language
\* while the store still holds the other value of the same text for the
\* language set before
C12_Witness ==
    /\ op = "textstatistics.smog_index"
    /\ cache.hit
    /\ self_lang = "de_DE"
    /\ \E i \in 1..Len(cache.smog_index) :
           /\ cache.smog_index[i].key = <<text, "en_US">>
           /\ cache.smog_index[i].value # ret

\* the argument tuples function f was called with, and the keys it stores
Used(f) == {calls[i].args : i \in {j \in 1..Len(calls) : calls[j].f = f}}

StoredKeys(f) == {cache[f][i].key : i \in 1..Len(cache[f])}

\* the position in calls of the last call of f with args: its last hit or
\* its insertion
LastUse(f, args) ==
    CHOOSE i \in 1..Len(calls) :
        /\ calls[i].f = f /\ calls[i].args = args
        /\ \A j \in (i + 1)..Len(calls) : ~(calls[j].f = f /\ calls[j].args = args)

\* the argument tuples of f used after the last use of args
UsedAfter(f, args) == {k \in Used(f) : LastUse(f, k) > LastUse(f, args)}

\* C13: the store of a wrapped function never holds more than CACHE_SIZE
\* entries, and it holds exactly the CACHE_SIZE most recently used argument
\* tuples: an insertion into a full store has removed the entry whose last
\* hit or insertion is the oldest.
C13_BoundedLeastRecentlyUsed ==
    \A f \in WrappedFunctions :
        /\ Len(cache[f]) <= CACHE_SIZE
        /\ Cardinality(StoredKeys(f)) = Len(cache[f])
        /\ StoredKeys(f) =
               {k \in Used(f) : Cardinality(UsedAfter(f, k)) < CACHE_SIZE}

\* C13 witness: an insertion into the full store of smog_index has removed
\* an entry that was first used later than an entry that is kept
C13_Witness ==
    /\ op = "textstatistics.smog_index"
    /\ ~cache.hit
    /\ Len(cache.smog_index) = CACHE_SIZE
    /\ \E k \in Used("smog_index") \ StoredKeys("smog_index") :
           \E j \in StoredKeys("smog_index") :
               \E i \in 1..Len(calls), h \in 1..Len(calls) :
                   /\ i < h
                   /\ calls[i].f = "smog_index" /\ calls[i].args = j
                   /\ calls[h].f = "smog_index" /\ calls[h].args = k
                   /\ ~\E g \in 1..(i - 1) :
                          calls[g].f = "smog_index" /\ calls[g].args = j

----------------------------------------------------------------------------
(* count_sentences on a text and on the text with closing punctuation *)

\* strings made only of '.', '!' and '?'
Suffixes ==
    {<<".">>, <<"!">>, <<"?">>, <<"?", "!">>, <<".", ".", ".">>, <<"!", ".">>}

InitAppend ==
    /\ text \in TextsOver(LatinVocabulary)
    /\ ext = NoScores
    /\ self_lang = "en_US"
    /\ round_points = <<>>
    /\ op = "none"
    /\ arg = NoArg
    /\ ret = NoRet
    /\ cache = NoEntries
    /\ calls = <<>>

\* count_sentences(text + suffix)
Call_count_sentences_appended ==
    \E suffix \in Suffixes :
        Returns("count_sentences(text + suffix)",
                [flag |-> FALSE, lang |-> "", suffix |-> suffix],
                IntRet(count_sentences(text \o suffix)))

NextAppend ==
    \/ Call_count_sentences
    \/ Call_count_sentences_appended

SpecAppend == InitAppend /\ [][NextAppend]_vars

\* C14: for every text t and every string p made only of '.', '!' and '?',
\* count_sentences(t + p) >= count_sentences(t).
C14_SuffixKeepsSentences ==
    op = "count_sentences(text + suffix)" =>
        ret.kind = "int" /\ ret.n >= count_sentences(text)

\* C14 witness: two sentences are counted in a text that does not end in
\* closing punctuation, and in the text with "?!" appended
C14_Witness ==
    /\ op = "count_sentences(text + suffix)"
    /\ arg.suffix = <<"?", "!">>
    /\ text # <<>> /\ text[Len(text)] \notin Terminals
    /\ count_sentences(text) = 2
    /\ ret.n = 2

----------------------------------------------------------------------------
(* remove_punctuation under both apostrophe policies *)

PunctuationVocabulary ==
    << <<"T", "h", "e", "y", "'", "r", "e">>, <<"h", "e", "r", "e">>, <<" ">>,
       <<"'">>, <<"-">>, <<",">>, <<".">>, <<"1">> >>

InitPunctuation ==
    /\ text \in TextsOver(PunctuationVocabulary)
    /\ ext = NoScores
    /\ self_lang = "en_US"
    /\ round_points = <<>>
    /\ op = "none"
    /\ arg = NoArg
    /\ ret = NoRet
    /\ cache = NoEntries
    /\ calls = <<>>

\* transformations.remove_punctuation(text, rm_apostrophe); the str returned
\* is kept as its sequence of characters
Call_remove_punctuation ==
    \E rm_apostrophe \in BOOLEAN :
        Returns("remove_punctuation", [flag |-> rm_apostrophe, lang |-> ""],
                StrRet(remove_punctuation(text, rm_apostrophe)))

\* counts.count_words(text, rm_punctuation)
Call_count_words ==
    \E rm_punctuation \in BOOLEAN :
        Returns("count_words", [flag |-> rm_punctuation, lang |-> ""],
                IntRet(count_words(text, rm_punctuation)))

NextPunctuation ==
    \/ Call_remove_punctuation
    \/ Call_count_words

SpecPunctuation == InitPunctuation /\ [][NextPunctuation]_vars

IsKeeper(c) == c \in Letters \cup Digits \cup Whitespace

\* the apostrophes of s that stand directly between two letters
ContractionApostrophes(s) ==
    {i \in 2..(Len(s) - 1) :
        s[i] = "'" /\ s[i - 1] \in Letters /\ s[i + 1] \in Letters}

Apostrophes(s) == {i \in 1..Len(s) : s[i] = "'"}

Theyre == <<"T", "h", "e", "y", "'", "r", "e">>

\* C15: remove_punctuation leaves only letters, digits, whitespace and,
\* with rm_apostrophe=False, apostrophes; it removes no letter, digit or
\* whitespace; with rm_apostrophe=True no apostrophe is left, with
\* rm_apostrophe=False exactly the apostrophes directly between two letters
\* are left, each still between its letters.  "They're here" becomes
\* "Theyre here" resp. stays "They're here", and "They're-here" becomes one
\* token.
C15_PunctuationRemoved ==
    op = "remove_punctuation" =>
        LET out == ret.str
        IN  /\ ret.kind = "str"
            /\ \A i \in 1..Len(out) : IsKeeper(out[i]) \/ out[i] = "'"
            /\ SelectSeq(out, IsKeeper) = SelectSeq(text, IsKeeper)
            /\ arg.flag => Apostrophes(out) = {}
            /\ ~arg.flag =>
                  /\ Cardinality(Apostrophes(out))
                         = Cardinality(ContractionApostrophes(text))
                  /\ Apostrophes(out) = ContractionApostrophes(out)
            /\ text = Theyre \o <<" ">> \o <<"h", "e", "r", "e">> =>
                  out = IF arg.flag
                        THEN <<"T", "h", "e", "y", "r", "e", " ", "h", "e", "r", "e">>
                        ELSE text
            /\ text = Theyre \o <<"-">> \o <<"h", "e", "r", "e">> =>
                  Len(split(out)) = 1

\* C15 witness: with rm_apostrophe=False the apostrophe of "They're" is
\* kept while a hyphen and an apostrophe that is not between two letters
\* are removed
C15_Witness ==
    /\ op = "remove_punctuation"
    /\ ~arg.flag
    /\ text = Theyre \o <<"-">> \o <<"'">>
    /\ ret.str = Theyre

----------------------------------------------------------------------------
(* The rounding of float outputs *)

\* the values of the argument points: None and some ints
Points == {<<>>, <<0>>, <<2>>}

rounding_points_always(rounding, points) == points

\* what set_rounding(rounding, points) assigns to __round_points
rounding_points(rounding, points) == IF rounding THEN points ELSE <<>>

\* a setter call f(args) that assigns points to __round_points
Sets(f, args, points) ==
    /\ Len(calls) < MaxCalls
    /\ round_points' = points
    /\ op' = f
    /\ arg' = NoArg
    /\ ret' = NoRet
    /\ calls' = Append(calls, [f |-> f, args |-> args])
    /\ UNCHANGED <<text, ext, self_lang, cache>>

\* textstatistics.set_rounding_points(points)
set_rounding_points ==
    \E points \in Points :
        Sets("set_rounding_points", <<points>>, points)

\* textstatistics.set_rounding(rounding, points)
set_rounding ==
    \E rounding \in BOOLEAN, points \in Points :
        Sets("set_rounding", <<rounding, points>>, rounding_points(rounding, points))

NextRounding ==
    \/ set_rounding_points
    \/ set_rounding
    \/ ts_smog_index

SpecRounding == InitCache /\ [][NextRounding]_vars

Setters == {"set_rounding_points", "set_rounding"}

\* the position in calls of the most recent setter call, 0 if there is none
LastSetter ==
    LET set == {i \in 1..Len(calls) : calls[i].f \in Setters}
    IN  IF set = {} THEN 0 ELSE CHOOSE i \in set : \A j \in set : j <= i

\* the digits asked for by the setter call c: <<>> when it disables rounding
Asked(c) ==
    IF c.f = "set_rounding_points" THEN c.args[1]
    ELSE IF c.args[1] THEN c.args[2]
    ELSE <<>>

----------------------------------------------------------------------------
(* text_standard over the scores of Flesch Reading Ease *)

\* the scores from 20.0 to 110.0 in steps of a half, 0.0 and -10.0
EaseScores == {Ratio(k, 2) : k \in 40..220} \cup {Zero, Ratio(-10, 1)}

\* scores of the other formulas kept outside the model, with the votes 5
\* and 6, 6 and 7, 10 and 11, 11 and 12, 12 and 13
EaseGrades ==
    [fk |-> Ratio(11, 2), cl |-> Ratio(13, 2), dc |-> Ratio(21, 2),
     lw |-> Ratio(23, 2), gf |-> Ratio(25, 2)]

InitEase ==
    /\ text = ThreeSentences
    /\ ext \in [fk : {EaseGrades.fk}, re : EaseScores, cl : {EaseGrades.cl},
                dc : {EaseGrades.dc}, lw : {EaseGrades.lw}, gf : {EaseGrades.gf}]
    /\ self_lang = "en_US"
    /\ round_points = <<>>
    /\ op = "none"
    /\ arg = NoArg
    /\ ret = NoRet
    /\ cache = NoEntries
    /\ calls = <<>>

NextEase ==
    \/ Call_text_standard
    \/ Call_ts_text_standard

SpecEase == InitEase /\ [][NextEase]_vars

\* lo <= s < hi for the score s and the ints lo and hi
Within(s, lo, hi) == lo * s.d <= s.n /\ s.n < hi * s.d

\* the votes the claim gives the score s
BucketVotes(s) ==
    IF Within(s, 90, 100) THEN <<5>>
    ELSE IF Within(s, 80, 90) THEN <<6>>
    ELSE IF Within(s, 70, 80) THEN <<7>>
    ELSE IF Within(s, 60, 70) THEN <<8, 9>>
    ELSE IF Within(s, 50, 60) THEN <<10>>
    ELSE IF Within(s, 40, 50) THEN <<11>>
    ELSE IF Within(s, 30, 40) THEN <<12>>
    ELSE <<13>>

\* C17: the Flesch Reading Ease score s votes 5 for 90 <= s < 100, 6 for
\* 80 <= s < 90, 7 for 70 <= s < 80, 8 and 9 for 60 <= s < 70, 10 for
\* 50 <= s < 60, 11 for 40 <= s < 50, 12 for 30 <= s < 40 and 13 for every
\* other score; the vote list has 16 entries when 60 <= s < 70 and 15
\* otherwise, and text_standard returns the most common value of that list.
C17_EaseBuckets ==
    op = "metrics.text_standard" =>
        LET byFormula == VotesByFormula
            votes     == Concat(byFormula)
            expected  == Concat([byFormula EXCEPT ![2] = BucketVotes(ext.re)])
        IN  /\ byFormula[2] = BucketVotes(ext.re)
            /\ Len(votes) = IF Within(ext.re, 60, 70) THEN 16 ELSE 15
            /\ ret = FloatRet(Ratio(most_common_1(expected), 1))

\* C17 witness: the score 69.5 has voted 8 and 9 and the list has 16 votes
C17_Witness ==
    /\ op = "metrics.text_standard"
    /\ ext.re = Ratio(139, 2)
    /\ VotesByFormula[2] = <<8, 9>>
    /\ Len(Concat(VotesByFormula)) = 16
    /\ ret.kind = "float"

\* the largest and the smallest vote of a list of votes
MaxOf(votes) == CHOOSE v \in Values(votes) : \A w \in Values(votes) : w <= v

MinOf(votes) == CHOOSE v \in Values(votes) : \A w \in Values(votes) : v <= w

\* s1 <= s2 for two scores
AtMost(s1, s2) == s1.n * s2.d <= s2.n * s1.d

\* C20 as stated: the vote of Flesch Reading Ease never rises with the
\* score: for scores s1 <= s2 the largest vote of s2 is at most the
\* smallest vote of s1, also for scores of 100 or more.
C20_EaseVoteMonotone ==
    op = "metrics.text_standard" =>
        \A s1 \in EaseScores :
            AtMost(s1, ext.re) =>
                MaxOf(VotesByFormula[2]) <= MinOf(ease_votes(s1))

\* the first positions of the maximal runs of non-terminal characters of s
RunStarts(s) ==
    {i \in 1..Len(s) : s[i] \notin Terminals /\ (i = 1 \/ s[i - 1] \in Terminals)}

\* the maximal run of non-terminal characters of s that starts at i
RunAt(s, i) ==
    LET last == CHOOSE j \in i..Len(s) :
                    /\ \A k \in i..j : s[k] \notin Terminals
                    /\ j = Len(s) \/ s[j + 1] \in Terminals
    IN  SubSeq(s, i, last)

\* C18: count_sentences(t) = max(1, S - I) for the S segments the scan
\* finds and the I of them that have at most 2 words.  Each run of
\* non-terminal characters with a word gives one segment, so the result
\* is the number of runs with 3 or more words, or 1 if that is 0: a segment
\* of 3 or more words is counted, one of fewer words is not.
C18_CountsLongSegments ==
    op = "count_sentences" =>
        LET segments == sentences_of(text)
            S == Len(segments)
            I == Cardinality({k \in 1..S : count_words(segments[k], TRUE) <= 2})
            long == {i \in RunStarts(text) : count_words(RunAt(text, i), TRUE) >= 3}
            some == {i \in RunStarts(text) : count_words(RunAt(text, i), TRUE) >= 1}
        IN  /\ ret = IntRet(Max(1, S - I))
            /\ S = Cardinality(some)
            /\ ret.n = Max(1, Cardinality(long))

\* C18 witness: of three segments the one of two words is not counted
C18_Witness ==
    /\ op = "count_sentences"
    /\ Len(sentences_of(text)) = 3
    /\ \E k \in 1..3 : count_words(sentences_of(text)[k], TRUE) = 2
    /\ ret.n = 2

\* C19 as stated: count_arabic_syllables uses the length-based fallback
\* only for a text without any short-vowel diacritic; for a text with a
\* short-vowel diacritic the result is short + 2 * (long + stress) of the
\* scan alone.
C19_FallbackOnlyWithoutShortVowels ==
    op = "count_arabic_syllables" =>
        IF \E i \in 1..Len(text) : text[i] \in ShortVowels
        THEN ret.n = Cardinality(ShortOccurrences)
                     + 2 * (Cardinality(LongOccurrences) + stress_count(text))
        ELSE ret.n = Len(StripChars(text, Fillers)) - 2 + 2 * stress_count(text)
====
